---- MODULE Spec2Model ----
(***************************************************************************)
(* Story-session state machine of the Rawi story generator                 *)
(* (src/ai_service.py, src/prompts.py).                                    *)
(*                                                                         *)
(* Texts are sequences of tokens.  A token is a marker of the reply        *)
(* format, a numbering ("1."), a newline, a blank, or an ordinary word.    *)
(* The regular expressions of the source are translated to operators on    *)
(* token sequences.                                                        *)
(***************************************************************************)
EXTENDS Integers, Sequences, FiniteSets, TLC

\* ---------------------------------------------------------------- tokens
\* "الفقرة:"
PARA == "PARAGRAPH:"
\* "الخيارات:"
CHOICES == "CHOICES:"
\* "العنوان:"
TITLE == "TITLE:"
\* "العنوان الجديد:"
NEWTITLE == "NEWTITLE:"
NL == "\n"
SP == " "
\* what str.strip() and \s remove
WS == {NL, SP}
\* the tokens matched by \d+\.
NumTok == {"1.", "2.", "3.", "4.", "5.", "6.", "7.", "8.", "9.", "10."}

\* Python's None for an Optional[str]
None == <<"None">>
\* Python's None for an Optional[List[StoryChoice]]
NoChoices == <<[id |-> 0, text |-> None]>>
\* truth value of an Optional[str] in an `if`
Truthy(x) == x # None /\ x # <<>>
\* truth value of an Optional[List[StoryChoice]] in an `if`
TruthyList(x) == x # NoChoices /\ x # <<>>

\* ------------------------------------------------------ string helpers
RECURSIVE LStrip(_)
LStrip(s) == IF s # <<>> /\ Head(s) \in WS THEN LStrip(Tail(s)) ELSE s

RECURSIVE RStrip(_)
RStrip(s) == IF s # <<>> /\ s[Len(s)] \in WS THEN RStrip(SubSeq(s, 1, Len(s) - 1)) ELSE s

\* str.strip()
Strip(s) == RStrip(LStrip(s))

\* index of the first token of s that is in toks, 0 when there is none
Find(s, toks) ==
    LET I == {i \in 1..Len(s) : s[i] \in toks}
    IN  IF I = {} THEN 0 ELSE CHOOSE i \in I : \A j \in I : i <= j

\* s[i:] (1-based, inclusive)
From(s, i) == SubSeq(s, i, Len(s))

\* sep.join(parts)
RECURSIVE Join(_, _)
Join(parts, sep) ==
    IF parts = <<>> THEN <<>>
    ELSE IF Len(parts) = 1 THEN parts[1]
    ELSE parts[1] \o sep \o Join(Tail(parts), sep)

\* str.split("\n")
RECURSIVE SplitLines(_)
SplitLines(s) ==
    LET i == Find(s, {NL})
    IN  IF i = 0 THEN <<s>>
        ELSE <<SubSeq(s, 1, i - 1)>> \o SplitLines(From(s, i + 1))

\* ------------------------------------------------------ response parser
\* re.findall(r"\d+\.\s*(.*?)(?=\d+\.|$)", choices_text, re.DOTALL), each
\* match stripped: one entry per numbering token, the text up to the next
\* numbering token or the end
RECURSIVE NumberedItems(_)
NumberedItems(t) ==
    LET i == Find(t, NumTok)
    IN  IF i = 0 THEN <<>>
        ELSE LET rest == From(t, i + 1)
                 j == Find(rest, NumTok)
             IN  IF j = 0 THEN <<Strip(rest)>>
                 ELSE <<Strip(SubSeq(rest, 1, j - 1))>> \o NumberedItems(From(rest, j))

\* the primary extraction: enumerate(..., 1), entries with empty text skipped
NumberedChoices(t) ==
    LET items == NumberedItems(t)
        all == [i \in 1..Len(items) |-> [id |-> i, text |-> items[i]]]
    IN  SelectSeq(all, LAMBDA c : c.text # <<>>)

\* re.sub(r"^\d+\.\s*", "", line).strip()
StripNumbering(line) ==
    IF line # <<>> /\ Head(line) \in NumTok THEN Strip(Tail(line)) ELSE Strip(line)

\* the fallback: the first three non-blank lines, numbered in order
LineChoices(t) ==
    LET lines == SelectSeq(SplitLines(t), LAMBDA l : Strip(l) # <<>>)
        k == IF Len(lines) < 3 THEN Len(lines) ELSE 3
    IN  [i \in 1..k |-> [id |-> i, text |-> StripNumbering(lines[i])]]

\* variant: without a paragraph marker the reply is returned untrimmed
parse_paragraph_untrimmed(response_text) ==
    LET i == Find(response_text, {PARA})
    IN  IF i = 0 THEN response_text
        ELSE LET rest == From(response_text, i + 1)
                 j == Find(rest, {CHOICES, TITLE})
             IN  IF j = 0 THEN Strip(rest) ELSE Strip(SubSeq(rest, 1, j - 1))

parse_paragraph(response_text) ==
    LET i == Find(response_text, {PARA})
    IN  IF i = 0 THEN Strip(response_text)
        ELSE LET rest == From(response_text, i + 1)
                 j == Find(rest, {CHOICES, TITLE})
             IN  IF j = 0 THEN Strip(rest) ELSE Strip(SubSeq(rest, 1, j - 1))

parse_choices(response_text) ==
    LET i == Find(response_text, {CHOICES})
    IN  IF i = 0 THEN NoChoices
        ELSE LET choices_text == Strip(From(response_text, i + 1))
                 numbered == NumberedChoices(choices_text)
             IN  IF numbered # <<>> THEN numbered ELSE LineChoices(choices_text)

parse_title(response_text) ==
    LET i == Find(response_text, {TITLE})
    IN  IF i = 0 THEN None ELSE Strip(From(response_text, i + 1))

parse_paragraph_and_choices(response_text) ==
    [paragraph |-> parse_paragraph(response_text),
     choices |-> parse_choices(response_text),
     title |-> parse_title(response_text)]


\* --------------------------------------------------------------- prompts
\* get_system_prompt(): prose without markers
get_system_prompt == <<"SYSTEM">>

StoryLength == {"short", "medium", "long"}

\* get_story_length_instructions(length)["paragraphs"]
get_story_length_instructions(length) ==
    CASE length = "short" -> 3
      [] length = "medium" -> 5
      [] length = "long" -> 7
      [] OTHER -> 5

\* create_story_init_prompt(config): the request and the reply format it shows
create_story_init_prompt(config) ==
    <<NL, "write", ToString(get_story_length_instructions(config.length)), NL,
      "1.", "first", NL, "2.", "begin", NL, "3.", "present", NL, "4.", "conflict", NL,
      "5.", "options", NL, "6.", "short", NL, "7.", "name", NL, "8.", "format", NL,
      PARA, NL, "[first]", NL, NL,
      CHOICES, NL, "1.", SP, "[c1]", NL, "2.", SP, "[c2]", NL, "3.", SP, "[c3]", NL>>

\* the clause of create_continuation_prompt appended when is_final
FinalClause ==
    <<NL, "5.", SP, "end", NL, "6.", SP, "suggest", NL, NL,
      PARA, NL, "[final]", NL, NL, TITLE, NL, "[title]", NL>>

\* the clause of create_continuation_prompt appended otherwise
ChoicesClause ==
    <<NL, "5.", SP, "options", NL, "6.", SP, "short", NL, "7.", SP, "name", NL,
      "8.", SP, "format", NL, "9.", SP, "who", NL, "10.", SP, "paths", NL, NL,
      PARA, NL, "[next]", NL, NL,
      CHOICES, NL, "1.", SP, "[c1]", NL, "2.", SP, "[c2]", NL, "3.", SP, "[c3]", NL>>

create_continuation_prompt(story_context, choice_id, choice_text, current_paragraph, max_paragraphs) ==
    LET is_final == current_paragraph >= max_paragraphs - 1
    IN  <<NL, "context", NL>> \o story_context
        \o <<NL, NL, "chose", SP, ToString(choice_id), ":", SP>> \o choice_text
        \o <<NL, NL, "1.", SP, "continue", NL, "2.", SP, "nosummary", NL,
             "3.", SP, "develop", NL, "4.", SP, "consistent", NL>>
        \o (IF is_final THEN FinalClause ELSE ChoicesClause)

\* the f-string custom_prompt of continue_story_with_text
custom_prompt(story_context_text, custom_text, current_paragraph, max_paragraphs) ==
    <<NL, "reached", NL, NL>> \o story_context_text
    \o <<NL, NL, "custom", NL, NL, "\"">> \o custom_text \o <<"\"", NL, NL,
         "continue", NL, "give", SP, "3", SP, "options", NL, NL,
         "remember", NL, "-", SP, "number", SP, ToString(current_paragraph), SP, "of", SP,
         ToString(max_paragraphs), NL, "-", SP, "close", NL, NL, "format", NL, NL,
         PARA, SP, "[new]", NL, NL,
         CHOICES, NL, "1.", SP, "[c1]", NL, "2.", SP, "[c2]", NL, "3.", SP, "[c3]", NL, NL,
         "iflast", NL, NL, TITLE, SP, "[title]", NL>>

create_title_prompt(complete_story) ==
    <<NL, "story", NL, NL>> \o complete_story \o <<NL, NL, "suggest", NL, "only", NL>>

\* the user_prompt f-string of edit_story
edit_user_prompt(complete_story, edit_instructions) ==
    <<"story", NL, NL>> \o complete_story \o <<NL, NL, "instructions", NL>>
    \o edit_instructions \o <<NL, NL, "edit", NL>>

user(content) == [role |-> "user", content |-> content]
assistant(content) == [role |-> "assistant", content |-> content]
system(content) == [role |-> "system", content |-> content]


\* ----------------------------------------------------------------- bounds
\* sessions created in a run
MaxSessions == 1
\* requests suspended at the model call at the same time
MaxInflight == 2
\* model calls issued in a run (interleaved runs / sequential runs)
MaxCalls == 4
SeqMaxCalls == 7
\* advances accepted beyond the target length
MaxOver == 1
\* events of a run outside its plain flow (initialize, then advances answered in
\* the requested format): failed model calls, story replies off the requested
\* format, rejected requests, title requests and edit requests
MaxIrregular == 1
\* largest choice id a caller submits
MaxChoiceId == 4
\* largest `retries` argument of a call of the model client
MaxRetries == 4
\* most numbered entries in a reply given to the parser
MaxEntries == 4
\* longest reply, in tokens, among the arbitrary replies given to the parser
MaxReplyLen == 4
\* longest edit reply, in tokens, given to the reply handling of edit_story
MaxEditReplyLen == 5
\* the default of the parameter `retries`
retries_default == 3
\* the default of the parameter `backoff_factor`, in tenths of a second
backoff_factor == 15

Lim == [inflight |-> MaxInflight, calls |-> MaxCalls]
SeqLim == [inflight |-> 1, calls |-> SeqMaxCalls]

\* uuid4 strings; one more than the sessions created, so one is always unknown
StoryIds == 1..(MaxSessions + 1)
ChoiceIds == 0..MaxChoiceId
CustomTexts == {<<"go">>}
\* ChoiceRequest.choice_id, an Optional[int]: <<>> is None, <<c>> is the integer c
ChoiceIdArgs == {<<>>} \cup {<<c>> : c \in ChoiceIds}
\* ChoiceRequest.custom_text, an Optional[str]
CustomTextArgs == {None} \cup CustomTexts
EditInstructions == {<<"fix">>}

\* ------------------------------------------------------- model replies
\* the format asked for on a turn that is not final
RChoices == <<PARA, NL, "a", NL, NL, CHOICES, NL, "1.", SP, "x", NL>>
\* the format asked for on a final turn
RFinal == <<PARA, NL, "b", NL, NL, TITLE, NL, "t">>
\* choices and a title in one reply
RBoth == <<PARA, SP, "c", NL, CHOICES, NL, "1.", SP, "x", NL, TITLE, SP, "u">>
\* no marker at all
RPlain == <<"d">>
\* a title marker with nothing after it
REmptyTitle == <<PARA, SP, "e", NL, TITLE, NL>>
StoryReplies == {RChoices, RFinal, RBoth, RPlain, REmptyTitle}

TitleReplies == {<<"s">>, <<TITLE, SP, "v">>, <<TITLE, NL>>}

EditReplies == {<<"p", NL, NL, "q">>,
                <<NEWTITLE, SP, "w", NL, "p", NL, NL, NL, "q", NL, NL, "r", NL>>}

\* the replies that follow the format the prompt of the request asked for
Expected(req) ==
    CASE req.op = "initialize_story" -> {RChoices}
      [] req.op \in {"continue_story", "continue_story_with_text"} ->
            IF req.current_paragraph >= req.max_paragraphs - 1 THEN {RFinal} ELSE {RChoices}
      [] req.op = "generate_title_if_missing" -> TitleReplies
      [] OTHER -> EditReplies

RepliesFor(req) ==
    CASE req.op \in {"initialize_story", "continue_story", "continue_story_with_text"} -> StoryReplies
      [] req.op = "generate_title_if_missing" -> TitleReplies
      [] OTHER -> EditReplies

\* ------------------------------------------------------------------ state
VARIABLES
    stories_context,    \* story_id -> [paragraphs (a list object), current_paragraph]
    stories_metadata,   \* story_id -> [config, max_paragraphs, messages, title]
    heap,               \* the list objects that hold paragraphs
    inflight,           \* requests suspended at `await generate_response(...)`
    last,               \* the response most recently returned to a caller
    ncalls,             \* model calls issued
    nirregular,         \* events outside the plain flow so far
    observed,           \* per session: what callers have seen so far
    client,             \* one call of generate_response: its locals and its position
    parser              \* one parse of a model reply: the reply and the result

vars == <<stories_context, stories_metadata, heap, inflight, last, ncalls, nirregular,
          observed, client, parser>>

NoView == [content |-> None, choices |-> NoChoices, is_complete |-> FALSE,
           title |-> None, paragraphs |-> <<>>, text |-> None]

NoSnapshot == [paragraphs |-> <<>>, current_paragraph |-> 0, title |-> None, messages |-> <<>>]

\* what a caller can read of a session
Snapshot(story_id) ==
    [paragraphs |-> heap[stories_context[story_id].paragraphs],
     current_paragraph |-> stories_context[story_id].current_paragraph,
     title |-> stories_metadata[story_id].title,
     messages |-> stories_metadata[story_id].messages]

Known(story_id) == story_id \in DOMAIN stories_context /\ story_id \in DOMAIN stories_metadata

Remove(seq, k) == SubSeq(seq, 1, k - 1) \o SubSeq(seq, k + 1, Len(seq))

Response(op, story_id, outcome, view) ==
    [op |-> op, story_id |-> story_id, choice_id |-> 0, outcome |-> outcome, view |-> view,
     pre |-> NoSnapshot, after_complete |-> FALSE, prev_title |-> None, nth |-> 0,
     choices |-> NoChoices, choice_text |-> None]

\* Python's None for last_exception
NoException == [type |-> "None", detail |-> "None"]

\* generate_response has not been called
NoCall == [pc |-> "idle", retries |-> 0, attempt |-> 0, last_exception |-> NoException,
           posts |-> <<>>, sleeps |-> <<>>, result |-> "None", exception |-> NoException]

\* no call of the parser is under way
NoParse == [pc |-> "idle", response_text |-> <<>>, paragraph |-> <<>>, entries |-> <<>>,
            sections |-> <<>>,
            result |-> [paragraph |-> None, choices |-> NoChoices, title |-> None]]

\* the two maps as the module creates them
NoSessions ==
    /\ stories_context = [i \in {} |-> 0]
    /\ stories_metadata = [i \in {} |-> 0]
    /\ heap = <<>>
    /\ inflight = <<>>
    /\ last = Response("none", 0, "none", NoView)
    /\ ncalls = 0
    /\ nirregular = 0
    /\ observed = [i \in {} |-> 0]

Init ==
    /\ NoSessions
    /\ client = NoCall
    /\ parser = NoParse

\* an exception raised before the model call: nothing but the response changes
RaiseFor(op, story_id, choice_id, outcome) ==
    /\ nirregular < MaxIrregular
    /\ nirregular' = nirregular + 1
    /\ last' = [Response(op, story_id, outcome, NoView) EXCEPT !.choice_id = choice_id]
    /\ UNCHANGED <<stories_context, stories_metadata, heap, inflight, ncalls, observed,
                   client, parser>>

Raise(op, story_id, outcome) == RaiseFor(op, story_id, 0, outcome)

\* the handler reaches `await generate_response(messages)`
Suspend(lim, req) ==
    /\ Len(inflight) < lim.inflight
    /\ ncalls < lim.calls
    /\ inflight' = Append(inflight, req)
    /\ ncalls' = ncalls + 1
    /\ UNCHANGED <<client, parser>>

Request(op, story_id) ==
    [op |-> op, story_id |-> story_id, length |-> "",
     paragraphs |-> 0, current_paragraph |-> 0, max_paragraphs |-> 0,
     pre |-> NoSnapshot, after_complete |-> FALSE,
     choice_id |-> 0, choices |-> NoChoices, choice_text |-> None]

SessionRequest(op, story_id) ==
    [Request(op, story_id) EXCEPT
        !.paragraphs = stories_context[story_id].paragraphs,
        !.current_paragraph = stories_context[story_id].current_paragraph,
        !.max_paragraphs = stories_metadata[story_id].max_paragraphs,
        !.pre = Snapshot(story_id),
        !.after_complete = observed[story_id].completed]


\* the model call of request k returns response_text
Returns(k, response_text) ==
    /\ k \in 1..Len(inflight)
    /\ response_text \in RepliesFor(inflight[k])
    /\ response_text \in Expected(inflight[k]) \/ nirregular < MaxIrregular
    /\ nirregular' = IF response_text \in Expected(inflight[k]) THEN nirregular ELSE nirregular + 1
    /\ inflight' = Remove(inflight, k)
    /\ UNCHANGED <<ncalls, client, parser>>

\* --------------------------------------------------------- initialize_story
\* str(uuid.uuid4()): an identifier no session and no pending request has
uuid4 ==
    LET used == DOMAIN stories_context
                \cup {inflight[k].story_id : k \in {j \in 1..Len(inflight) : inflight[j].op = "initialize_story"}}
    IN  CHOOSE i \in StoryIds \ used : \A j \in StoryIds \ used : i <= j

PendingSessions ==
    Cardinality(DOMAIN stories_context)
    + Cardinality({k \in 1..Len(inflight) : inflight[k].op = "initialize_story"})

initialize_story_begin(lim, length) ==
    /\ PendingSessions < MaxSessions
    /\ Suspend(lim, [Request("initialize_story", uuid4) EXCEPT !.length = length])
    /\ UNCHANGED <<stories_context, stories_metadata, heap, last, nirregular, observed>>

\* variant: only the context map receives the entry
initialize_story_end_context_only(k, response_text) ==
    /\ Returns(k, response_text)
    /\ inflight[k].op = "initialize_story"
    /\ LET req == inflight[k]
           story_id == req.story_id
           parsed == parse_paragraph_and_choices(response_text)
           paragraph_text == parsed.paragraph
       IN  /\ heap' = Append(heap, <<paragraph_text>>)
           /\ stories_context' = (story_id :> [paragraphs |-> Len(heap) + 1, current_paragraph |-> 1])
                                 @@ stories_context
           /\ observed' = (story_id :> [nadv |-> 0, completed |-> FALSE, ftitle |-> None]) @@ observed
           /\ last' = Response("initialize_story", story_id, "ok",
                               [NoView EXCEPT !.content = paragraph_text,
                                              !.choices = parsed.choices,
                                              !.is_complete = FALSE])
           /\ UNCHANGED stories_metadata

initialize_story_end(k, response_text) ==
    /\ Returns(k, response_text)
    /\ inflight[k].op = "initialize_story"
    /\ LET req == inflight[k]
           story_id == req.story_id
           config == [length |-> req.length]
           messages == <<system(get_system_prompt), user(create_story_init_prompt(config))>>
           parsed == parse_paragraph_and_choices(response_text)
           paragraph_text == parsed.paragraph
       IN  /\ heap' = Append(heap, <<paragraph_text>>)
           /\ stories_context' = (story_id :> [paragraphs |-> Len(heap) + 1, current_paragraph |-> 1])
                                 @@ stories_context
           /\ stories_metadata' =
                (story_id :> [config |-> config,
                              max_paragraphs |-> get_story_length_instructions(config.length),
                              messages |-> Append(messages, assistant(response_text)),
                              title |-> None]) @@ stories_metadata
           /\ observed' = (story_id :> [nadv |-> 0, completed |-> FALSE, ftitle |-> None]) @@ observed
           /\ last' = Response("initialize_story", story_id, "ok",
                               [NoView EXCEPT !.content = paragraph_text,
                                              !.choices = parsed.choices,
                                              !.is_complete = FALSE])

\* ---------------------------------------- continue_story / _with_text
\* variant: the lower bound of the choice id is not tested
invalid_choice_no_lower_bound(choices, choice_id) ==
    ~TruthyList(choices) \/ choice_id > Len(choices)

\* the test of `if not choices or choice_id < 1 or choice_id > len(choices)`
invalid_choice(choices, choice_id) ==
    ~TruthyList(choices) \/ choice_id < 1 \/ choice_id > Len(choices)

\* next((c.text for c in choices if c.id == choice_id), "")
choice_text_of(choices, choice_id) ==
    LET hit == SelectSeq(choices, LAMBDA c : c.id = choice_id)
    IN  IF hit = <<>> THEN <<>> ELSE hit[1].text

\* variant: completion one turn late
is_complete_at_late(current_paragraph, max_paragraphs) ==
    current_paragraph >= max_paragraphs

\* variant: completion only on the turn that reaches the target
is_complete_at_exact(current_paragraph, max_paragraphs) ==
    current_paragraph = max_paragraphs - 1

\* is_complete = current_paragraph >= max_paragraphs - 1
is_complete_at(current_paragraph, max_paragraphs) ==
    current_paragraph >= max_paragraphs - 1

\* the choices offered by the last message of the history
offered_choices(story_id) ==
    LET messages == stories_metadata[story_id].messages
    IN  parse_paragraph_and_choices(messages[Len(messages)].content).choices

\* messages.append({"role": "user", ...}) and the suspension at the model call
AdvanceSuspend(lim, req, prompt) ==
    /\ stories_context[req.story_id].current_paragraph
          < stories_metadata[req.story_id].max_paragraphs + MaxOver
    /\ Suspend(lim, req)
    /\ stories_metadata' = [stories_metadata EXCEPT ![req.story_id].messages = Append(@, user(prompt))]
    /\ UNCHANGED <<stories_context, heap, last, nirregular, observed>>

continue_story_begin(lim, story_id, choice_id) ==
    IF ~Known(story_id) THEN Raise("continue_story", story_id, "SessionNotFound")
    ELSE LET context == stories_context[story_id]
             metadata == stories_metadata[story_id]
             choices == offered_choices(story_id)
         IN  IF invalid_choice(choices, choice_id)
             THEN RaiseFor("continue_story", story_id, choice_id, "InvalidChoice")
             ELSE AdvanceSuspend(lim,
                    [SessionRequest("continue_story", story_id) EXCEPT
                        !.choice_id = choice_id, !.choices = choices,
                        !.choice_text = choice_text_of(choices, choice_id)],
                    create_continuation_prompt(Join(heap[context.paragraphs], <<NL>>),
                                               choice_id, choice_text_of(choices, choice_id),
                                               context.current_paragraph, metadata.max_paragraphs))

continue_story_with_text_begin(lim, story_id, custom_text) ==
    IF ~Known(story_id) THEN Raise("continue_story_with_text", story_id, "SessionNotFound")
    ELSE LET context == stories_context[story_id]
             metadata == stories_metadata[story_id]
         IN  AdvanceSuspend(lim, SessionRequest("continue_story_with_text", story_id),
                custom_prompt(Join(heap[context.paragraphs], <<NL>>), custom_text,
                              context.current_paragraph, metadata.max_paragraphs))

\* POST /continue: the dispatch on the fields of the ChoiceRequest
continue_story_route(lim, story_id, choice_id, custom_text) ==
    IF Len(choice_id) = 1 THEN continue_story_begin(lim, story_id, choice_id[1])
    ELSE IF custom_text # None
    THEN continue_story_with_text_begin(lim, story_id, custom_text)
    ELSE Raise("continue_story_route", story_id, "MissingInput")

\* variant: the parsed choices and the stored title are returned as they are
story_response_unfiltered(paragraph_text, choices, is_complete, title) ==
    [NoView EXCEPT !.content = paragraph_text,
                   !.choices = choices,
                   !.is_complete = is_complete,
                   !.title = title]

\* StoryResponse(story_id, paragraph=StoryParagraph(content, choices), is_complete, title)
story_response(paragraph_text, choices, is_complete, title) ==
    [NoView EXCEPT !.content = paragraph_text,
                   !.choices = IF is_complete THEN NoChoices ELSE choices,
                   !.is_complete = is_complete,
                   !.title = IF is_complete THEN title ELSE None]

\* variant: the title of the reply is never stored
AdvanceCommit_title_dropped(req, response_text) ==
    LET story_id == req.story_id
        parsed == parse_paragraph_and_choices(response_text)
        is_complete == is_complete_at(req.current_paragraph, req.max_paragraphs)
        title == stories_metadata[story_id].title
    IN  /\ heap' = [heap EXCEPT ![req.paragraphs] = Append(@, parsed.paragraph)]
        /\ stories_context' = [stories_context EXCEPT ![story_id] =
                [paragraphs |-> req.paragraphs, current_paragraph |-> @.current_paragraph + 1]]
        /\ stories_metadata' = [stories_metadata EXCEPT
                ![story_id].title = title,
                ![story_id].messages = Append(@, assistant(response_text))]
        /\ observed' = [observed EXCEPT ![story_id].nadv = @ + 1,
                                        ![story_id].completed = @ \/ is_complete]
        /\ last' = [Response(req.op, story_id, "ok",
                        story_response(parsed.paragraph, parsed.choices, is_complete, title))
                    EXCEPT !.pre = req.pre, !.after_complete = req.after_complete,
                           !.nth = observed[story_id].nadv + 1]

\* continue_story after `await generate_response(messages)`
AdvanceCommit(req, response_text) ==
    LET story_id == req.story_id
        parsed == parse_paragraph_and_choices(response_text)
        is_complete == is_complete_at(req.current_paragraph, req.max_paragraphs)
        title == IF is_complete /\ Truthy(parsed.title) THEN parsed.title
                 ELSE stories_metadata[story_id].title
    IN  /\ heap' = [heap EXCEPT ![req.paragraphs] = Append(@, parsed.paragraph)]
        /\ stories_context' = [stories_context EXCEPT ![story_id] =
                [paragraphs |-> req.paragraphs, current_paragraph |-> @.current_paragraph + 1]]
        /\ stories_metadata' = [stories_metadata EXCEPT
                ![story_id].title = title,
                ![story_id].messages = Append(@, assistant(response_text))]
        /\ observed' = [observed EXCEPT ![story_id].nadv = @ + 1,
                                        ![story_id].completed = @ \/ is_complete]
        /\ last' = [Response(req.op, story_id, "ok",
                        story_response(parsed.paragraph, parsed.choices, is_complete, title))
                    EXCEPT !.pre = req.pre, !.after_complete = req.after_complete,
                           !.nth = observed[story_id].nadv + 1]

continue_story_end(k, response_text) ==
    /\ Returns(k, response_text)
    /\ inflight[k].op = "continue_story"
    /\ AdvanceCommit(inflight[k], response_text)

\* variant: a title in the reply is stored on every turn
continue_story_with_text_commit_any_title(req, response_text) ==
    LET story_id == req.story_id
        parsed == parse_paragraph_and_choices(response_text)
        paragraph_text == parsed.paragraph
        is_complete == req.current_paragraph >= req.max_paragraphs - 1
        title == IF Truthy(parsed.title) THEN parsed.title
                 ELSE stories_metadata[story_id].title
        paragraph == [content |-> paragraph_text,
                      choices |-> IF is_complete THEN NoChoices ELSE parsed.choices]
    IN  /\ heap' = [heap EXCEPT ![req.paragraphs] = Append(@, paragraph_text)]
        /\ stories_context' = [stories_context EXCEPT
                ![story_id].current_paragraph = @ + 1,
                ![story_id].paragraphs = req.paragraphs]
        /\ stories_metadata' = [stories_metadata EXCEPT
                ![story_id].title = title,
                ![story_id].messages = Append(@, assistant(response_text))]
        /\ observed' = [observed EXCEPT ![story_id].nadv = @ + 1,
                                        ![story_id].completed = @ \/ is_complete]
        /\ last' = [Response(req.op, story_id, "ok",
                        [NoView EXCEPT !.content = paragraph.content,
                                       !.choices = paragraph.choices,
                                       !.is_complete = is_complete,
                                       !.title = IF is_complete THEN title ELSE None])
                    EXCEPT !.pre = req.pre, !.after_complete = req.after_complete,
                           !.nth = observed[story_id].nadv + 1]

\* continue_story_with_text after its model call: the session is updated and
\* the view is built
continue_story_with_text_commit(req, response_text) ==
    LET story_id == req.story_id
        parsed == parse_paragraph_and_choices(response_text)
        paragraph_text == parsed.paragraph
        is_complete == req.current_paragraph >= req.max_paragraphs - 1
        title == IF is_complete /\ Truthy(parsed.title) THEN parsed.title
                 ELSE stories_metadata[story_id].title
        paragraph == [content |-> paragraph_text,
                      choices |-> IF is_complete THEN NoChoices ELSE parsed.choices]
    IN  /\ heap' = [heap EXCEPT ![req.paragraphs] = Append(@, paragraph_text)]
        /\ stories_context' = [stories_context EXCEPT
                ![story_id].current_paragraph = @ + 1,
                ![story_id].paragraphs = req.paragraphs]
        /\ stories_metadata' = [stories_metadata EXCEPT
                ![story_id].title = title,
                ![story_id].messages = Append(@, assistant(response_text))]
        /\ observed' = [observed EXCEPT ![story_id].nadv = @ + 1,
                                        ![story_id].completed = @ \/ is_complete]
        /\ last' = [Response(req.op, story_id, "ok",
                        [NoView EXCEPT !.content = paragraph.content,
                                       !.choices = paragraph.choices,
                                       !.is_complete = is_complete,
                                       !.title = IF is_complete THEN title ELSE None])
                    EXCEPT !.pre = req.pre, !.after_complete = req.after_complete,
                           !.nth = observed[story_id].nadv + 1]

continue_story_with_text_end(k, response_text) ==
    /\ Returns(k, response_text)
    /\ inflight[k].op = "continue_story_with_text"
    /\ continue_story_with_text_commit(inflight[k], response_text)


\* ------------------------------------------------------ get_complete_story
\* variant: the paragraphs are joined with a single newline
complete_story_text_single_newline(story_id) ==
    LET story_text == Join(heap[stories_context[story_id].paragraphs], <<NL>>)
        title == IF story_id \in DOMAIN stories_metadata
                 THEN stories_metadata[story_id].title ELSE None
    IN  IF Truthy(title) THEN <<"STORY-TITLED", SP>> \o title \o <<".", NL, NL>> \o story_text
        ELSE story_text

\* "\n\n".join(paragraphs), after the title announcement when a title is set
complete_story_text(story_id) ==
    LET story_text == Join(heap[stories_context[story_id].paragraphs], <<NL, NL>>)
        title == IF story_id \in DOMAIN stories_metadata
                 THEN stories_metadata[story_id].title ELSE None
    IN  IF Truthy(title) THEN <<"STORY-TITLED", SP>> \o title \o <<".", NL, NL>> \o story_text
        ELSE story_text

\* variant: an unknown identifier reads as an empty story
get_complete_story_default(story_id) ==
    /\ last' = Response("get_complete_story", story_id, "ok",
                        [NoView EXCEPT !.text = IF story_id \in DOMAIN stories_context
                                                THEN complete_story_text(story_id) ELSE <<>>])
    /\ UNCHANGED <<stories_context, stories_metadata, heap, inflight, ncalls,
                   nirregular, observed, client, parser>>

get_complete_story(story_id) ==
    IF story_id \notin DOMAIN stories_context
    THEN Raise("get_complete_story", story_id, "SessionNotFound")
    ELSE /\ last' = Response("get_complete_story", story_id, "ok",
                             [NoView EXCEPT !.text = complete_story_text(story_id)])
         /\ UNCHANGED <<stories_context, stories_metadata, heap, inflight, ncalls,
                        nirregular, observed, client, parser>>

\* ----------------------------------------------- generate_title_if_missing
\* title.strip().replace("العنوان:", "").strip()
clean_title(title) == Strip(SelectSeq(Strip(title), LAMBDA tok : tok # TITLE))

TitleResponse(story_id, title) ==
    [Response("generate_title_if_missing", story_id, "ok", [NoView EXCEPT !.title = title])
     EXCEPT !.prev_title = observed[story_id].ftitle]

generate_title_if_missing_begin(lim, story_id) ==
    IF story_id \notin DOMAIN stories_metadata
    THEN Raise("generate_title_if_missing", story_id, "SessionNotFound")
    ELSE IF Truthy(stories_metadata[story_id].title)
    THEN /\ last' = TitleResponse(story_id, stories_metadata[story_id].title)
         /\ observed' = [observed EXCEPT ![story_id].ftitle = stories_metadata[story_id].title]
         /\ UNCHANGED <<stories_context, stories_metadata, heap, inflight, ncalls,
                        nirregular, client, parser>>
    ELSE IF story_id \notin DOMAIN stories_context
    THEN Raise("generate_title_if_missing", story_id, "SessionNotFound")
    ELSE /\ Suspend(lim, SessionRequest("generate_title_if_missing", story_id))
         /\ nirregular < MaxIrregular
         /\ nirregular' = nirregular + 1
         /\ UNCHANGED <<stories_context, stories_metadata, heap, last, observed>>

\* variant: the title prompt and its reply are added to the session's history
generate_title_if_missing_end_in_history(k, response_text) ==
    /\ Returns(k, response_text)
    /\ inflight[k].op = "generate_title_if_missing"
    /\ LET story_id == inflight[k].story_id
           title == clean_title(response_text)
       IN  /\ stories_metadata' = [stories_metadata EXCEPT
                    ![story_id].title = title,
                    ![story_id].messages = Append(@, assistant(response_text))]
           /\ last' = TitleResponse(story_id, title)
           /\ observed' = [observed EXCEPT ![story_id].ftitle = title]
           /\ UNCHANGED <<stories_context, heap>>

generate_title_if_missing_end(k, response_text) ==
    /\ Returns(k, response_text)
    /\ inflight[k].op = "generate_title_if_missing"
    /\ LET story_id == inflight[k].story_id
           title == clean_title(response_text)
       IN  /\ stories_metadata' = [stories_metadata EXCEPT ![story_id].title = title]
           /\ last' = TitleResponse(story_id, title)
           /\ observed' = [observed EXCEPT ![story_id].ftitle = title]
           /\ UNCHANGED <<stories_context, heap>>

\* --------------------------------------------------------------- edit_story
\* re.search(r"العنوان الجديد:\s*(.*?)(?:\n|$)", response_text), group(1).strip()
new_title_of(response_text) ==
    LET i == Find(response_text, {NEWTITLE})
    IN  IF i = 0 THEN None
        ELSE LET rest == LStrip(From(response_text, i + 1))
                 j == Find(rest, {NL})
             IN  IF j = 0 THEN Strip(rest) ELSE Strip(SubSeq(rest, 1, j - 1))

\* re.sub(r"العنوان الجديد:\s*.*?(?:\n|$)", "", response_text)
RECURSIVE remove_new_title(_)
remove_new_title(response_text) ==
    LET i == Find(response_text, {NEWTITLE})
    IN  IF i = 0 THEN response_text
        ELSE LET rest == LStrip(From(response_text, i + 1))
                 j == Find(rest, {NL})
             IN  SubSeq(response_text, 1, i - 1)
                 \o (IF j = 0 THEN <<>> ELSE remove_new_title(From(rest, j + 1)))

\* str.split("\n\n")
RECURSIVE SplitBlank(_)
SplitBlank(s) ==
    LET I == {i \in 1..(Len(s) - 1) : s[i] = NL /\ s[i + 1] = NL}
    IN  IF I = {} THEN <<s>>
        ELSE LET i == CHOOSE i \in I : \A j \in I : i <= j
             IN  <<SubSeq(s, 1, i - 1)>> \o SplitBlank(From(s, i + 2))

\* [p.strip() for p in response_text.split("\n\n") if p.strip()]
edited_paragraphs_of(response_text) ==
    LET parts == SplitBlank(response_text)
        stripped == [i \in 1..Len(parts) |-> Strip(parts[i])]
    IN  SelectSeq(stripped, LAMBDA p : p # <<>>)

edit_story_begin(lim, story_id, edit_instructions) ==
    IF ~Known(story_id) THEN Raise("edit_story", story_id, "SessionNotFound")
    ELSE /\ Suspend(lim, SessionRequest("edit_story", story_id))
         /\ nirregular < MaxIrregular
         /\ nirregular' = nirregular + 1
         /\ UNCHANGED <<stories_context, stories_metadata, heap, last, observed>>

\* variant: the paragraph index is set to the number of edited paragraphs
edit_story_end_reindexed(k, response_text) ==
    /\ Returns(k, response_text)
    /\ inflight[k].op = "edit_story"
    /\ LET story_id == inflight[k].story_id
           new_title == new_title_of(response_text)
           body == IF Find(response_text, {NEWTITLE}) # 0
                   THEN remove_new_title(response_text) ELSE response_text
           edited_paragraphs == edited_paragraphs_of(body)
           title == IF Truthy(new_title) THEN new_title ELSE stories_metadata[story_id].title
       IN  /\ heap' = Append(heap, edited_paragraphs)
           /\ stories_context' = [stories_context EXCEPT
                    ![story_id] = [paragraphs |-> Len(heap) + 1,
                                   current_paragraph |-> Len(edited_paragraphs)]]
           /\ stories_metadata' = [stories_metadata EXCEPT ![story_id].title = title]
           /\ observed' = [observed EXCEPT ![story_id].ftitle = None]
           /\ last' = Response("edit_story", story_id, "ok",
                               [NoView EXCEPT !.paragraphs = edited_paragraphs, !.title = title])

edit_story_end(k, response_text) ==
    /\ Returns(k, response_text)
    /\ inflight[k].op = "edit_story"
    /\ LET story_id == inflight[k].story_id
           new_title == new_title_of(response_text)
           body == IF Find(response_text, {NEWTITLE}) # 0
                   THEN remove_new_title(response_text) ELSE response_text
           edited_paragraphs == edited_paragraphs_of(body)
           title == IF Truthy(new_title) THEN new_title ELSE stories_metadata[story_id].title
       IN  /\ heap' = Append(heap, edited_paragraphs)
           /\ stories_context' = [stories_context EXCEPT ![story_id].paragraphs = Len(heap) + 1]
           /\ stories_metadata' = [stories_metadata EXCEPT ![story_id].title = title]
           /\ observed' = [observed EXCEPT ![story_id].ftitle = None]
           /\ last' = Response("edit_story", story_id, "ok",
                               [NoView EXCEPT !.paragraphs = edited_paragraphs, !.title = title])

\* ------------------------------------------------------- generate_response
\* `raise last_exception or Exception(...)`: no handler catches it, the
\* request ends with the error
generate_response_raises(k) ==
    /\ k \in 1..Len(inflight)
    /\ inflight[k].op \in {"generate_title_if_missing", "edit_story"} \/ nirregular < MaxIrregular
    /\ nirregular' = IF inflight[k].op \in {"generate_title_if_missing", "edit_story"}
                     THEN nirregular ELSE nirregular + 1
    /\ inflight' = Remove(inflight, k)
    /\ last' = [Response(inflight[k].op, inflight[k].story_id, "ModelFailure", NoView)
                EXCEPT !.pre = inflight[k].pre, !.choice_id = inflight[k].choice_id,
                       !.choices = inflight[k].choices,
                       !.choice_text = inflight[k].choice_text]
    /\ UNCHANGED <<stories_context, stories_metadata, heap, ncalls, observed, client, parser>>

\* what the endpoint answers to one POST: a status other than 200 (429, 500,
\* 503, or 201 with the payload in its body), a transport failure
\* (httpx.HTTPError), a 200 whose body is not JSON, a 200 whose JSON lacks
\* "choices", or a 200 with the payload
EndpointAnswers == {"429", "500", "503", "201", "transport", "notjson", "malformed", "ok"}

RetriesArgs == 1..MaxRetries

\* variant: the wait grows by backoff_factor with every attempt
wait_time_linear(attempt) == backoff_factor * (attempt + 1)

\* backoff_factor * (2 ** attempt), in tenths of a second
wait_time(attempt) == backoff_factor * (2 ^ attempt)

\* the unchanged session store during a call of the client
SessionsUnchanged ==
    UNCHANGED <<stories_context, stories_metadata, heap, inflight, last, ncalls, nirregular,
                observed>>

\* the call up to the loop: the API key test and `last_exception = None`
generate_response_call(retries, has_key) ==
    /\ client.pc = "idle"
    /\ client' = IF has_key
                 THEN [NoCall EXCEPT !.pc = "loop", !.retries = retries]
                 ELSE [NoCall EXCEPT !.pc = "raised", !.retries = retries,
                                     !.exception = [type |-> "no_api_key", detail |-> "None"]]
    /\ SessionsUnchanged /\ UNCHANGED parser

\* the sleep and `continue` that end a failed iteration
Backoff(c) == [c EXCEPT !.sleeps = Append(@, [attempt |-> c.attempt, wait |-> wait_time(c.attempt)]),
                        !.attempt = @ + 1]

\* variant: the loop runs once more than `retries`
generate_response_attempt_once_more(answer) ==
    /\ client.pc = "loop"
    /\ client.attempt <= client.retries
    /\ LET posted == [client EXCEPT !.posts = Append(@, answer)]
       IN  client' =
             CASE answer = "429" -> Backoff(posted)
               [] answer \in {"500", "503", "201"} ->
                    Backoff([posted EXCEPT !.last_exception = [type |-> "api_error", detail |-> answer]])
               [] answer = "transport" ->
                    Backoff([posted EXCEPT !.last_exception = [type |-> "http_error", detail |-> answer]])
               [] answer \in {"notjson", "malformed"} ->
                    Backoff([posted EXCEPT !.last_exception = [type |-> "unexpected", detail |-> answer]])
               [] OTHER -> [posted EXCEPT !.pc = "returned", !.result = "content"]
    /\ SessionsUnchanged /\ UNCHANGED parser

\* one iteration of `for attempt in range(retries)`: the POST and its handling
generate_response_attempt(answer) ==
    /\ client.pc = "loop"
    /\ client.attempt < client.retries
    /\ LET posted == [client EXCEPT !.posts = Append(@, answer)]
       IN  client' =
             CASE answer = "429" -> Backoff(posted)
               [] answer \in {"500", "503", "201"} ->
                    Backoff([posted EXCEPT !.last_exception = [type |-> "api_error", detail |-> answer]])
               [] answer = "transport" ->
                    Backoff([posted EXCEPT !.last_exception = [type |-> "http_error", detail |-> answer]])
               [] answer \in {"notjson", "malformed"} ->
                    Backoff([posted EXCEPT !.last_exception = [type |-> "unexpected", detail |-> answer]])
               [] OTHER -> [posted EXCEPT !.pc = "returned", !.result = "content"]
    /\ SessionsUnchanged /\ UNCHANGED parser

\* `raise last_exception or Exception(...)` after the loop
generate_response_exhausted ==
    /\ client.pc = "loop"
    /\ client.attempt >= client.retries
    /\ client' = [client EXCEPT
            !.pc = "raised",
            !.exception = IF client.last_exception # NoException THEN client.last_exception
                          ELSE [type |-> "exhausted", detail |-> "None"]]
    /\ SessionsUnchanged /\ UNCHANGED parser

\* ---------------------------------------------------------- specification
NextL(lim) ==
    \/ \E length \in StoryLength : initialize_story_begin(lim, length)
    \/ \E k \in 1..MaxInflight, r \in StoryReplies : initialize_story_end(k, r)
    \/ \E story_id \in StoryIds, choice_id \in ChoiceIdArgs, custom_text \in CustomTextArgs :
            continue_story_route(lim, story_id, choice_id, custom_text)
    \/ \E k \in 1..MaxInflight, r \in StoryReplies : continue_story_end(k, r)
    \/ \E k \in 1..MaxInflight, r \in StoryReplies : continue_story_with_text_end(k, r)
    \/ \E story_id \in StoryIds : get_complete_story(story_id)
    \/ \E story_id \in StoryIds : generate_title_if_missing_begin(lim, story_id)
    \/ \E k \in 1..MaxInflight, r \in TitleReplies : generate_title_if_missing_end(k, r)
    \/ \E story_id \in StoryIds, edit_instructions \in EditInstructions :
            edit_story_begin(lim, story_id, edit_instructions)
    \/ \E k \in 1..MaxInflight, r \in EditReplies : edit_story_end(k, r)
    \/ \E k \in 1..MaxInflight : generate_response_raises(k)

\* requests overlap at the model call
Next == NextL(Lim)
Spec == Init /\ [][Next]_vars

\* one request at a time
SeqNext == NextL(SeqLim)
SeqSpec == Init /\ [][SeqNext]_vars

\* ------------------------------------------ replies given to the parser
\* the numbering "i."
Numbering(i) == <<"1.", "2.", "3.", "4.", "5.", "6.", "7.", "8.", "9.", "10.">>[i]

\* "1. <text>\n2. <text>\n ..."
RECURSIVE NumberedEntries(_, _, _)
NumberedEntries(entries, i, gap) ==
    IF i > Len(entries) THEN <<>>
    ELSE <<Numbering(i)>> \o gap \o entries[i] \o <<NL>> \o NumberedEntries(entries, i + 1, gap)

\* paragraph texts: free of markers, with blanks, newlines and a number
ParagraphTexts == {<<"a">>, <<"a", SP, "1.", SP, "b">>, <<"a", NL, NL, "b">>}
\* entry texts: non-empty, free of markers; one ends with a number and a full stop
EntryTexts == {<<"x">>, <<"y", SP, "z">>, <<"y", SP, "3.">>}
Gaps == {<<>>, <<SP>>, <<NL>>}

\* replies of the requested format: the paragraph marker, a text, the choices
\* marker, numbered entries
FormattedReplies ==
    {[NoParse EXCEPT
        !.pc = "called",
        !.paragraph = P,
        !.entries = e,
        !.response_text = <<PARA>> \o g \o P \o <<NL>> \o g \o <<CHOICES>> \o g
                          \o NumberedEntries(e, 1, h)] :
        P \in ParagraphTexts, g \in Gaps, h \in {<<>>, <<SP>>},
        e \in UNION {[1..k -> EntryTexts] : k \in 1..MaxEntries}}

ReplyTokens == {PARA, CHOICES, TITLE, NL, SP, "1.", "a"}

\* every reply of at most MaxReplyLen tokens
ArbitraryReplies ==
    {[NoParse EXCEPT !.pc = "called", !.response_text = t] :
        t \in UNION {[1..n -> ReplyTokens] : n \in 0..MaxReplyLen}}

\* the three sections a reply can have
Sections ==
    {[kind |-> "paragraph", text |-> <<PARA, SP, "a", NL>>],
     [kind |-> "choices", text |-> <<CHOICES, NL, "1.", SP, "x", NL, "2.", SP, "y", NL>>],
     [kind |-> "title", text |-> <<TITLE, SP, "t", NL>>]}

\* the texts of the sections one after the other
RECURSIVE SectionsText(_)
SectionsText(sections) ==
    IF sections = <<>> THEN <<>> ELSE Head(sections).text \o SectionsText(Tail(sections))

\* replies made of some of the sections, each at most once, in any order
SectionedReplies ==
    {[NoParse EXCEPT !.pc = "called", !.sections = q, !.response_text = SectionsText(q)] :
        q \in {q \in UNION {[1..n -> Sections] : n \in 1..3} :
                    \A i, j \in 1..Len(q) : i # j => q[i] # q[j]}}

\* the parser is called with some reply
ParserInit ==
    /\ NoSessions
    /\ client = NoCall
    /\ parser \in FormattedReplies \cup ArbitraryReplies \cup SectionedReplies

\* the call returns (paragraph, choices, title)
parse_reply ==
    /\ parser.pc = "called"
    /\ parser' = [parser EXCEPT !.pc = "returned",
                                !.result = parse_paragraph_and_choices(parser.response_text)]
    /\ SessionsUnchanged /\ UNCHANGED client

ParserNext == parse_reply
ParserSpec == ParserInit /\ [][ParserNext]_vars

\* ------------------------------------ replies given to edit_story
EditReplyTokens == {NEWTITLE, NL, SP, "w", "p"}

\* the title stored in the session when the edit reply arrives
StoredTitles == {None, <<"t">>}

\* edit_story has received response_text for a session whose title is `title`
EditCalls ==
    {[pc |-> "edit_called", response_text |-> t, title |-> title,
      result |-> [paragraphs |-> <<>>, title |-> None, stored |-> None]] :
        t \in UNION {[1..n -> EditReplyTokens] : n \in 0..MaxEditReplyLen},
        title \in StoredTitles}

EditReplyInit ==
    /\ NoSessions
    /\ client = NoCall
    /\ parser \in EditCalls

\* the code of edit_story after the model call: the new title, the edited
\* paragraphs, the title stored and the title returned
edit_reply ==
    /\ parser.pc = "edit_called"
    /\ LET response_text == parser.response_text
           new_title == new_title_of(response_text)
           body == IF Find(response_text, {NEWTITLE}) # 0
                   THEN remove_new_title(response_text) ELSE response_text
           stored == IF Truthy(new_title) THEN new_title ELSE parser.title
       IN  parser' = [parser EXCEPT
                !.pc = "edit_returned",
                !.result = [paragraphs |-> edited_paragraphs_of(body),
                            title |-> IF Truthy(new_title) THEN new_title ELSE stored,
                            stored |-> stored]]
    /\ SessionsUnchanged /\ UNCHANGED client

EditReplyNext == edit_reply
EditReplySpec == EditReplyInit /\ [][EditReplyNext]_vars

\* one call of the model client against an arbitrary endpoint; the POST has a
\* timeout and the sleeps are finite, so a call that can take a step takes it
ClientNext ==
    \/ \E retries \in RetriesArgs, has_key \in BOOLEAN : generate_response_call(retries, has_key)
    \/ \E answer \in EndpointAnswers : generate_response_attempt(answer)
    \/ generate_response_exhausted
ClientSpec == Init /\ [][ClientNext]_vars /\ WF_vars(ClientNext)


\* ------------------------------------------------------------------ claims
Advances == {"continue_story", "continue_story_with_text"}

\* the number of choices the session currently offers
NumChoices(story_id) ==
    IF offered_choices(story_id) = NoChoices THEN 0 ELSE Len(offered_choices(story_id))

\* the target length derived from the configuration at creation
Target(story_id) == get_story_length_instructions(stories_metadata[story_id].config.length)

\* C1: when the model call of an advance fails, the stored paragraphs, the
\* paragraph index, the title and the conversation history of the session are
\* what they were when the request arrived.
C1_FailedAdvanceLeavesSession ==
    (last.op \in Advances /\ last.outcome = "ModelFailure" /\ inflight = <<>>)
        => Snapshot(last.story_id) = last.pre

C3_UnknownSessionRejected ==
    [][\A story_id \in StoryIds \ DOMAIN observed :
            (\/ \E choice_id \in ChoiceIds : continue_story_begin(Lim, story_id, choice_id)
             \/ \E custom_text \in CustomTexts :
                    continue_story_with_text_begin(Lim, story_id, custom_text)
             \/ generate_title_if_missing_begin(Lim, story_id)
             \/ \E edit_instructions \in EditInstructions :
                    edit_story_begin(Lim, story_id, edit_instructions)
             \/ get_complete_story(story_id))
            => /\ last'.outcome = "SessionNotFound" /\ last'.story_id = story_id
               /\ UNCHANGED <<stories_context, stories_metadata, heap, inflight, ncalls,
                              observed>>]_vars

\* an unknown identifier is refused while another session exists
C3_Witness ==
    /\ last.outcome = "SessionNotFound"
    /\ last.story_id \notin DOMAIN observed
    /\ DOMAIN stories_context # {}

\* C4: in a sequential run the index is 1 after initialize and grows by one
\* with every advance; an advance returns is_complete = true exactly when it
\* was evaluated with previous index >= T - 1, that is from the (T-1)-th
\* advance on, and the (T-1)-th advance leaves the index at T (T = 3, 5 or 7).
C4_CompletionAtTarget ==
    \A story_id \in DOMAIN stories_context :
        /\ Target(story_id) \in {3, 5, 7}
        /\ stories_metadata[story_id].max_paragraphs = Target(story_id)
        /\ stories_context[story_id].current_paragraph = observed[story_id].nadv + 1
        /\ (last.story_id = story_id /\ last.op \in Advances /\ last.outcome = "ok")
            => /\ last.view.is_complete <=> last.nth >= Target(story_id) - 1
               /\ last.view.is_complete <=> last.pre.current_paragraph >= Target(story_id) - 1

\* the sixth advance of a long story is the first to report completion
C4_Witness ==
    /\ last.op \in Advances /\ last.outcome = "ok" /\ last.view.is_complete
    /\ Target(last.story_id) = 7
    /\ last.nth = 6
    /\ stories_context[last.story_id].current_paragraph = 7

\* C5: in every view returned by an advance, choices are absent when
\* is_complete is true, and a title is present only when is_complete is true.
C5_ViewSuppression ==
    (last.op \in Advances /\ last.outcome = "ok")
        => /\ last.view.is_complete => last.view.choices = NoChoices
           /\ last.view.title # None => last.view.is_complete

\* a completing advance whose reply carried choices and a title
C5_Witness ==
    /\ last.op \in Advances /\ last.outcome = "ok" /\ last.view.is_complete
    /\ inflight = <<>>
    /\ NumChoices(last.story_id) > 0
    /\ last.view.choices = NoChoices
    /\ last.view.title # None

\* C6: two finalizeTitle calls on a session with no edit in between return the
\* same title, and a finalizeTitle call on a session with a stored title issues
\* no model call.
C6_FinalizeTitleIdempotent ==
    /\ (last.op = "generate_title_if_missing" /\ last.outcome = "ok" /\ last.prev_title # None)
            => last.view.title = last.prev_title
    /\ \A k \in 1..Len(inflight) :
            inflight[k].op = "generate_title_if_missing" => inflight[k].pre.title = None

\* C7: the paragraph index of every session equals the number of its stored
\* paragraph texts.
C7_IndexEqualsCount ==
    \A story_id \in DOMAIN stories_context :
        stories_context[story_id].current_paragraph
            = Len(heap[stories_context[story_id].paragraphs])

\* C8: in steps that are not the completion of an edit, a stored title is
\* never replaced by a different value.
C8_TitleSetOnce ==
    [][\A story_id \in DOMAIN stories_metadata :
            (/\ Truthy(stories_metadata[story_id].title)
             /\ ~(\E k \in 1..MaxInflight, r \in EditReplies : edit_story_end(k, r)))
            => stories_metadata'[story_id].title = stories_metadata[story_id].title]_vars

\* C9: the paragraph index of every session stays within 1..max.
C9_IndexWithinTarget ==
    \A story_id \in DOMAIN stories_context :
        stories_context[story_id].current_paragraph
            \in 1..stories_metadata[story_id].max_paragraphs

\* C10: an advance called after an advance on the session has returned
\* is_complete = true returns is_complete = true as well.
C10_CompletionSticks ==
    (last.op \in Advances /\ last.outcome = "ok" /\ last.after_complete)
        => last.view.is_complete

\* an advance beyond the completing one has returned
C10_Witness ==
    /\ last.op \in Advances /\ last.outcome = "ok" /\ last.after_complete
    /\ last.view.is_complete
    /\ stories_context[last.story_id].current_paragraph
          > stories_metadata[last.story_id].max_paragraphs

\* C11: a session identifier is in both the context map and the metadata map
\* or in neither, and an initialize whose model call failed leaves no entry in
\* either map.
C11_SessionInBothMapsOrNeither ==
    /\ DOMAIN stories_context = DOMAIN stories_metadata
    /\ (last.op = "initialize_story" /\ last.outcome = "ModelFailure")
            => last.story_id \notin (DOMAIN stories_context \cup DOMAIN stories_metadata)

\* the model call of an initialize has failed
C11_FailedInitialize ==
    /\ last.op = "initialize_story" /\ last.outcome = "ModelFailure"
    /\ last.story_id \in StoryIds
    /\ DOMAIN stories_context = {} /\ DOMAIN stories_metadata = {}

\* the choices of the most recent assistant message of the history
RECURSIVE last_assistant_content(_)
last_assistant_content(messages) ==
    IF messages = <<>> THEN <<>>
    ELSE IF messages[Len(messages)].role = "assistant" THEN messages[Len(messages)].content
    ELSE last_assistant_content(SubSeq(messages, 1, Len(messages) - 1))

\* an advance by choice is resubmitted right after its model call failed
RetryOfFailedChoice(story_id, choice_id) ==
    /\ last.op = "continue_story" /\ last.outcome = "ModelFailure"
    /\ last.story_id = story_id /\ last.choice_id = choice_id
    /\ inflight = <<>>
    /\ continue_story_begin(SeqLim, story_id, choice_id)

\* C12: an advance by choice resubmitted after its model call failed is
\* validated against the choices of the most recent assistant reply, the set
\* the first attempt was validated against, and sends the model the choice
\* text the first attempt sent.
C12_RetrySameChoice ==
    [][\A story_id \in StoryIds, choice_id \in ChoiceIds :
            RetryOfFailedChoice(story_id, choice_id)
            => /\ offered_choices(story_id) = last.choices
               /\ offered_choices(story_id)
                    = parse_paragraph_and_choices(
                        last_assistant_content(stories_metadata[story_id].messages)).choices
               /\ Len(inflight') = 1
               /\ inflight'[1].choice_text = last.choice_text]_vars

\* the call of the model client has ended
ClientDone == client.pc \in {"returned", "raised"}

\* C13: every call of the model client ends, with a reply or a failure, and
\* issues at most `retries` requests to the endpoint, whatever the endpoint
\* answers (429, another status, a transport failure, a malformed body).
C13_ClientTerminates ==
    /\ [](Len(client.posts) <= client.retries)
    /\ (client.pc = "loop") ~> ClientDone

\* a call with the default of three attempts that met a 429, a transport
\* failure and a malformed body, and raised
C13_ThreeFailedAttempts ==
    /\ client.pc = "raised" /\ client.retries = retries_default
    /\ Len(client.posts) = retries_default
    /\ \E i, j, k \in 1..Len(client.posts) :
            client.posts[i] = "429" /\ client.posts[j] = "transport"
            /\ client.posts[k] = "malformed"

\* C14: a 200 answer whose body lacks the payload field makes the call raise
\* at once: no request follows it and no backoff wait is made for it.
C14_MalformedRaisesAtOnce ==
    \A i \in 1..Len(client.posts) :
        client.posts[i] = "malformed"
        => /\ i = Len(client.posts)
           /\ client.pc = "raised"
           /\ \A j \in 1..Len(client.sleeps) : client.sleeps[j].attempt # i - 1

\* C15: when every attempt failed with a 429, another status or a transport
\* failure, the failure raised is the one of the last attempt, and the generic
\* failure is raised only when no attempt left a captured error.
C15_LastFailureRaised ==
    (/\ client.pc = "raised" /\ Len(client.posts) = client.retries
     /\ \A i \in 1..Len(client.posts) : client.posts[i] \in {"429", "500", "503", "transport"})
    => /\ client.exception.type # "exhausted"
            => client.exception.detail = client.posts[Len(client.posts)]
       /\ client.exception.type = "exhausted"
            => \A i \in 1..Len(client.posts) : client.posts[i] = "429"

\* text is the paragraphs, in order, each separated from the next by a blank line
RECURSIVE SeparatedByBlankLines(_, _)
SeparatedByBlankLines(text, paragraphs) ==
    IF paragraphs = <<>> THEN text = <<>>
    ELSE LET p == Head(paragraphs)
         IN  /\ Len(text) >= Len(p)
             /\ SubSeq(text, 1, Len(p)) = p
             /\ IF Len(paragraphs) = 1 THEN Len(text) = Len(p)
                ELSE /\ Len(text) >= Len(p) + 2
                     /\ text[Len(p) + 1] = NL /\ text[Len(p) + 2] = NL
                     /\ SeparatedByBlankLines(From(text, Len(p) + 3), Tail(paragraphs))

\* the sentence that announces the title, f"قصة بعنوان {title}.\n\n"
TitleAnnouncement(title) == <<"STORY-TITLED", SP>> \o title \o <<".", NL, NL>>

\* C16: the complete text of an existing session is its stored paragraphs in
\* stored order, separated by blank lines, after the title announcement exactly
\* when a title is set; the call changes nothing of the session.
C16_CompleteText ==
    [][\A story_id \in StoryIds :
            (story_id \in DOMAIN stories_context /\ get_complete_story(story_id))
            => LET text == last'.view.text
                   paragraphs == heap[stories_context[story_id].paragraphs]
                   title == stories_metadata[story_id].title
                   n == Len(TitleAnnouncement(title))
               IN  /\ last'.outcome = "ok"
                   /\ IF title # None /\ title # <<>>
                      THEN /\ Len(text) >= n
                           /\ SubSeq(text, 1, n) = TitleAnnouncement(title)
                           /\ SeparatedByBlankLines(From(text, n + 1), paragraphs)
                      ELSE /\ SeparatedByBlankLines(text, paragraphs)
                           /\ \A i \in 1..Len(text) : text[i] # "STORY-TITLED"
                   /\ UNCHANGED <<stories_context, stories_metadata, heap, inflight, ncalls,
                                  observed>>]_vars

\* the complete text of a titled story of at least three paragraphs was read
C16_TitledTextRead ==
    /\ last.op = "get_complete_story" /\ last.outcome = "ok"
    /\ Truthy(stories_metadata[last.story_id].title)
    /\ Len(heap[stories_context[last.story_id].paragraphs]) >= 3
    /\ last.view.text[1] = "STORY-TITLED"

\* C17: the advance route takes exactly one of choice id and custom text: with
\* neither it rejects the request, issues no model call and changes no
\* session, and it runs the choice transition or the free-text transition only
\* when exactly one of the two fields is given.
C17_ExactlyOneInput ==
    [][\A story_id \in StoryIds, choice_id \in ChoiceIdArgs, custom_text \in CustomTextArgs :
            continue_story_route(Lim, story_id, choice_id, custom_text)
            => /\ (Len(choice_id) = 0 /\ custom_text = None)
                    => /\ last'.outcome = "MissingInput"
                       /\ UNCHANGED <<stories_context, stories_metadata, heap, inflight,
                                      ncalls, observed>>
               /\ (\/ \E c \in ChoiceIds : continue_story_begin(Lim, story_id, c)
                   \/ \E t \in CustomTexts : continue_story_with_text_begin(Lim, story_id, t))
                    => (Len(choice_id) = 1) # (custom_text # None)]_vars

\* s is an initial part of t
IsPrefix(s, t) == Len(s) <= Len(t) /\ SubSeq(t, 1, Len(s)) = s

\* a step of finalizeTitle or of edit
TitleOrEditStep ==
    \/ \E story_id \in StoryIds : generate_title_if_missing_begin(Lim, story_id)
    \/ \E k \in 1..MaxInflight, r \in TitleReplies : generate_title_if_missing_end(k, r)
    \/ \E story_id \in StoryIds, edit_instructions \in EditInstructions :
            edit_story_begin(Lim, story_id, edit_instructions)
    \/ \E k \in 1..MaxInflight, r \in EditReplies : edit_story_end(k, r)

\* C18: the conversation history of a session only grows at its end: every
\* step leaves the history it found as an initial part of the new one, in any
\* interleaving of operations, and the steps of edit and finalizeTitle leave
\* it as it is.
C18_HistoryAppendOnly ==
    [][\A story_id \in DOMAIN stories_metadata :
            /\ story_id \in DOMAIN stories_metadata'
            /\ IsPrefix(stories_metadata[story_id].messages, stories_metadata'[story_id].messages)
            /\ TitleOrEditStep
                => stories_metadata'[story_id].messages = stories_metadata[story_id].messages]_vars

\* an edit has returned while an advance on the same session is suspended at
\* its model call, its user message already in the history
C18_EditDuringAdvance ==
    /\ last.op = "edit_story" /\ last.outcome = "ok"
    /\ Len(inflight) = 1 /\ inflight[1].op \in Advances
    /\ inflight[1].story_id = last.story_id
    /\ Len(stories_metadata[last.story_id].messages) >= 4
    /\ stories_metadata[last.story_id].messages[Len(stories_metadata[last.story_id].messages)].role
          = "user"

\* C19: for a reply made of the paragraph marker, a text P, the choices marker
\* and k entries numbered "1." to "k." with non-empty texts, the parser returns
\* P trimmed and exactly k choices, with ids 1..k in order and the entries'
\* texts.
C19_FormattedReplyParsed ==
    (parser.pc = "returned" /\ parser.entries # <<>>)
    => /\ parser.result.paragraph = Strip(parser.paragraph)
       /\ Len(parser.result.choices) = Len(parser.entries)
       /\ \A i \in 1..Len(parser.entries) :
            /\ i <= Len(parser.result.choices)
            /\ parser.result.choices[i].id = i
            /\ parser.result.choices[i].text = Strip(parser.entries[i])

\* C20: the parser returns a result for every reply, and for a reply with no
\* paragraph, choices or title marker the paragraph is the whole reply trimmed
\* and the choices and the title are absent.
C20_ParserTotal ==
    parser.pc = "returned"
    => /\ parser.result.paragraph # None
       /\ Len(parser.result.paragraph) <= Len(parser.response_text)
       /\ (\A i \in 1..Len(parser.response_text) :
                parser.response_text[i] \notin {PARA, CHOICES, TITLE})
            => /\ parser.result.paragraph = Strip(parser.response_text)
               /\ parser.result.choices = NoChoices
               /\ parser.result.title = None

\* a reply without markers, with a numbering and blanks around it, was parsed
C20_PlainReplyParsed ==
    /\ parser.pc = "returned"
    /\ parser.response_text = <<SP, "1.", "a", NL>>
    /\ parser.result.paragraph = <<"1.", "a">>
    /\ parser.result.choices = NoChoices

\* C21: a 429, another status outside 2xx or a transport failure on attempt a
\* (from 0) is followed by a wait of backoff_factor * 2^a, that is 15, 30, 60
\* tenths of a second with the defaults, and an answer with a 2xx status and a
\* well-formed payload is returned with no wait.
C21_BackoffWaits ==
    \A i \in 1..Len(client.posts) :
        /\ client.posts[i] \in {"429", "500", "503", "transport"}
            => /\ i <= Len(client.sleeps)
               /\ client.sleeps[i].attempt = i - 1
               /\ client.sleeps[i].wait = <<15, 30, 60, 120, 240>>[i]
        /\ client.posts[i] \in {"ok", "201"}
            => /\ client.pc = "returned"
               /\ i = Len(client.posts)
               /\ \A j \in 1..Len(client.sleeps) : client.sleeps[j].attempt # i - 1

\* C21 as amended: a 429, any other status that is not 200 (a 2xx one
\* included) or a transport failure on attempt a is followed by a wait of
\* backoff_factor * 2^a, and an answer with status 200 and a well-formed
\* payload is returned with no wait.
C21_BackoffWaitsNot200 ==
    \A i \in 1..Len(client.posts) :
        /\ client.posts[i] \in {"429", "500", "503", "201", "transport"}
            => /\ i <= Len(client.sleeps)
               /\ client.sleeps[i].attempt = i - 1
               /\ client.sleeps[i].wait = <<15, 30, 60, 120, 240>>[i]
        /\ client.posts[i] = "ok"
            => /\ client.pc = "returned"
               /\ i = Len(client.posts)
               /\ \A j \in 1..Len(client.sleeps) : client.sleeps[j].attempt # i - 1

\* a call with the defaults waited 1.5 s, 3 s and 6 s after a 429, a 500 and a
\* transport failure
C21_ThreeWaits ==
    /\ client.retries = retries_default
    /\ client.posts = <<"429", "500", "transport">>
    /\ Len(client.sleeps) = 3
    /\ client.sleeps[1].wait = 15 /\ client.sleeps[2].wait = 30 /\ client.sleeps[3].wait = 60

\* C22: a successful edit stores the paragraph list it returns in place of the
\* old one and may set the title; it leaves the paragraph index, the target,
\* the configuration and the history of the session as they were.  An edit
\* whose model call fails, or that is rejected, changes nothing.
C22_EditFrame ==
    [][/\ \A k \in 1..Len(inflight), r \in EditReplies :
            edit_story_end(k, r)
            => LET story_id == inflight[k].story_id
               IN  /\ heap'[stories_context'[story_id].paragraphs] = last'.view.paragraphs
                   /\ stories_context'[story_id].current_paragraph
                        = stories_context[story_id].current_paragraph
                   /\ stories_metadata'[story_id].max_paragraphs
                        = stories_metadata[story_id].max_paragraphs
                   /\ stories_metadata'[story_id].config = stories_metadata[story_id].config
                   /\ stories_metadata'[story_id].messages = stories_metadata[story_id].messages
                   /\ stories_metadata'[story_id].title
                        \in {stories_metadata[story_id].title, new_title_of(r)}
       /\ \A k \in 1..Len(inflight) :
            (inflight[k].op = "edit_story" /\ generate_response_raises(k))
            => UNCHANGED <<stories_context, stories_metadata, heap>>
       /\ \A story_id \in StoryIds, edit_instructions \in EditInstructions :
            edit_story_begin(Lim, story_id, edit_instructions)
            => UNCHANGED <<stories_context, stories_metadata, heap>>]_vars

\* an edit of a one-paragraph session has stored three paragraphs and a new
\* title, the index still 1
C22_EditedToThree ==
    /\ last.op = "edit_story" /\ last.outcome = "ok"
    /\ Len(heap[stories_context[last.story_id].paragraphs]) = 3
    /\ stories_context[last.story_id].current_paragraph = 1
    /\ stories_metadata[last.story_id].title = <<"w">>

\* the lines of an edit reply that hold the new-title marker
MarkerLines(response_text) ==
    {i \in 1..Len(SplitLines(response_text)) :
        Find(SplitLines(response_text)[i], {NEWTITLE}) # 0}

\* the reply has at most one new-title marker, at the start of a line
OneTitleLine(response_text) ==
    /\ Cardinality({i \in 1..Len(response_text) : response_text[i] = NEWTITLE}) <= 1
    /\ \A i \in MarkerLines(response_text) : SplitLines(response_text)[i][1] = NEWTITLE

\* the text of the new-title line after its marker
TitleLineText(response_text) ==
    LET m == CHOOSE i \in MarkerLines(response_text) : TRUE
    IN  Strip(Tail(SplitLines(response_text)[m]))

\* the reply without its new-title line
WithoutTitleLine(response_text) ==
    LET lines == SplitLines(response_text)
        kept == {i \in 1..Len(lines) : i \notin MarkerLines(response_text)}
        nth(j) == CHOOSE i \in kept : Cardinality({h \in kept : h < i}) = j - 1
    IN  Join([j \in 1..Cardinality(kept) |-> lines[nth(j)]], <<NL>>)

\* C23: for an edit reply with a new-title line, the title stored and returned
\* is the text of that line after the marker (a line with no text gives no
\* title) and no paragraph holds the marker; for a reply without such a line
\* the title returned is the stored one, which stays; the paragraphs are the
\* non-empty blocks, separated by blank lines, of the reply without that line.
C23_EditReplyParsed ==
    (parser.pc = "edit_returned" /\ OneTitleLine(parser.response_text))
    => /\ MarkerLines(parser.response_text) # {}
            => /\ TitleLineText(parser.response_text) # <<>>
                    => /\ parser.result.title = TitleLineText(parser.response_text)
                       /\ parser.result.stored = TitleLineText(parser.response_text)
               /\ TitleLineText(parser.response_text) = <<>>
                    => parser.result.stored = parser.title
               /\ \A i \in 1..Len(parser.result.paragraphs) :
                    Find(parser.result.paragraphs[i], {NEWTITLE}) = 0
       /\ MarkerLines(parser.response_text) = {}
            => parser.result.title = parser.title /\ parser.result.stored = parser.title
       /\ parser.result.paragraphs
            = edited_paragraphs_of(WithoutTitleLine(parser.response_text))

\* C24: the three extractions of the parser are independent: in a reply made
\* of a paragraph section, a choices section and a title section, any of them
\* present and in any order, the value extracted for a section is the value
\* extracted from that section alone.
C24_ExtractionsIndependent ==
    parser.pc = "returned"
    => \A i \in 1..Len(parser.sections) :
        LET alone == parse_paragraph_and_choices(parser.sections[i].text)
        IN  /\ parser.sections[i].kind = "paragraph"
                => parser.result.paragraph = alone.paragraph
            /\ parser.sections[i].kind = "choices"
                => parser.result.choices = alone.choices
            /\ parser.sections[i].kind = "title"
                => parser.result.title = alone.title

\* C25: every choice list the parser produces has the ids 1..k in order, so
\* that every choice id the advance accepts belongs to exactly one offered
\* choice, and the text of that choice, which goes into the continuation
\* instruction, is not empty.
C25_ChoiceIdsContiguous ==
    (parser.pc = "returned" /\ TruthyList(parser.result.choices))
    => LET choices == parser.result.choices
       IN  /\ \A i \in 1..Len(choices) : choices[i].id = i
           /\ \A choice_id \in ChoiceIds :
                ~invalid_choice(choices, choice_id)
                => /\ Cardinality({i \in 1..Len(choices) : choices[i].id = choice_id}) = 1
                   /\ choice_text_of(choices, choice_id) # <<>>

\* one user message was added to the history of the session and nothing else
\* of the session changed
UserMessageAdded(story_id) ==
    LET messages == stories_metadata[story_id].messages
        after == stories_metadata'[story_id].messages
    IN  /\ Len(after) = Len(messages) + 1
        /\ SubSeq(after, 1, Len(messages)) = messages
        /\ after[Len(after)].role = "user"
        /\ stories_metadata' = [stories_metadata EXCEPT ![story_id].messages = after]
        /\ stories_context' = stories_context
        /\ heap' = heap

\* C26: an advance by free text makes the transition an advance by choice
\* makes: both add one user message before the model call, and after it, from
\* the same session and for the same reply, the advance by free text leaves
\* the session as the code of the advance by choice leaves it (the paragraph
\* appended, the index one higher, the assistant message appended, the same
\* title stored) and returns the same view with the same is_complete.
C26_SameTransition ==
    [][/\ \A k \in 1..MaxInflight, r \in StoryReplies :
            continue_story_with_text_end(k, r) => AdvanceCommit(inflight[k], r)
       /\ \A story_id \in StoryIds :
            /\ \A custom_text \in CustomTexts :
                    (continue_story_with_text_begin(Lim, story_id, custom_text)
                        /\ Len(inflight') > Len(inflight))
                    => UserMessageAdded(story_id)
            /\ \A choice_id \in ChoiceIds :
                    (continue_story_begin(Lim, story_id, choice_id)
                        /\ Len(inflight') > Len(inflight))
                    => UserMessageAdded(story_id)]_vars

\* an advance by free text completed the story and stored the title
C26_TextAdvanceCompleted ==
    /\ last.op = "continue_story_with_text"
    /\ last.outcome = "ok"
    /\ last.view.is_complete
    /\ last.view.title = <<"t">>

\* the reply format an instruction ends with: what follows its last paragraph
\* marker (the story so far and the text of the user come before it)
ReplyFormat(prompt) ==
    LET at == {i \in 1..Len(prompt) : prompt[i] = PARA}
    IN  IF at = {} THEN <<>>
        ELSE SubSeq(prompt, CHOOSE i \in at : \A j \in at : j <= i, Len(prompt))

\* the reply format of an instruction has a choices section
AsksForChoices(prompt) ==
    \E i \in 1..Len(ReplyFormat(prompt)) : ReplyFormat(prompt)[i] = CHOICES

\* the reply format of an instruction has a title section
AsksForTitle(prompt) ==
    \E i \in 1..Len(ReplyFormat(prompt)) : ReplyFormat(prompt)[i] = TITLE

\* C27: the instruction an advance sent to the model asks for a title and for
\* no choices when the view the advance returns has is_complete = true, and
\* for choices and no title when it has is_complete = false, for an advance by
\* choice and for an advance by free text.
C27_InstructionMatchesCompletion ==
    [][\A k \in 1..MaxInflight, r \in StoryReplies :
        (continue_story_end(k, r) \/ continue_story_with_text_end(k, r))
        => LET messages == stories_metadata[inflight[k].story_id].messages
               prompt == messages[Len(messages)].content
           IN  /\ last'.view.is_complete
                    => AsksForTitle(prompt) /\ ~AsksForChoices(prompt)
               /\ ~last'.view.is_complete
                    => AsksForChoices(prompt) /\ ~AsksForTitle(prompt)]_vars

\* an advance returned a view with is_complete = true in this step, for the
\* reply response_text
CompletingReturn(k, response_text) ==
    /\ continue_story_end(k, response_text) \/ continue_story_with_text_end(k, response_text)
    /\ last'.view.is_complete

\* the view returned in this step has a title and the session has one stored
TitleInViewAndStored ==
    /\ last'.view.title # None
    /\ stories_metadata'[last'.story_id].title # None

\* a session that has a stored title keeps having one
StoredTitleStays ==
    \A story_id \in DOMAIN stories_metadata :
        stories_metadata[story_id].title # None => stories_metadata'[story_id].title # None

StoredParagraphs(story_id) == heap[stories_context[story_id].paragraphs]

\* the paragraphs stored for a session after the step
StoredParagraphsAfter(story_id) == heap'[stories_context'[story_id].paragraphs]

\* C29: no update of the paragraphs of a session is lost when an advance and
\* an edit overlap at their model calls: an advance that returns adds its
\* paragraph to the paragraphs stored at that moment, the replacement list of
\* an edit that committed meanwhile included, and an edit that returns leaves
\* its replacement list followed by the paragraphs that advances have added
\* since the edit began.
C29_NoLostUpdate ==
    [][\A k \in 1..MaxInflight :
        LET story_id == inflight[k].story_id
        IN  /\ \A r \in StoryReplies :
                    (continue_story_end(k, r) \/ continue_story_with_text_end(k, r))
                    => StoredParagraphsAfter(story_id)
                          = Append(StoredParagraphs(story_id),
                                   parse_paragraph_and_choices(r).paragraph)
            /\ \A r \in EditReplies :
                    (edit_story_end(k, r)
                        /\ IsPrefix(inflight[k].pre.paragraphs, StoredParagraphs(story_id)))
                    => StoredParagraphsAfter(story_id)
                          = last'.view.paragraphs
                            \o SubSeq(StoredParagraphs(story_id),
                                      Len(inflight[k].pre.paragraphs) + 1,
                                      Len(StoredParagraphs(story_id)))]_vars

\* C30: under every interleaving of the advances on a session, two of them
\* waiting at their model calls at the same time included, once the
\* paragraph index of the session has reached the target, some advance on the
\* session has returned is_complete = true.
C30_TargetReachedIsReported ==
    \A story_id \in DOMAIN stories_context :
        stories_context[story_id].current_paragraph
                >= stories_metadata[story_id].max_paragraphs
            => observed[story_id].completed

\* C31: the model client makes no backoff wait after its last attempt: a call
\* allowed N requests makes at most N - 1 waits, and when the call has raised
\* after its last permitted request failed, every wait it made was followed by
\* a request, so it made fewer waits than requests.
C31_NoWaitAfterLastAttempt ==
    /\ client.retries >= 1 => Len(client.sleeps) <= client.retries - 1
    /\ (client.pc = "raised" /\ Len(client.posts) = client.retries /\ client.retries >= 1)
            => Len(client.sleeps) < Len(client.posts)

====
